---- MODULE Spec2Model ----
(***************************************************************************)
(* Model of src/app.py: a Streamlit script that reads an uploaded CSV,     *)
(* checks that it has two numeric columns, lets the user pick two features *)
(* and a contamination rate, labels every row with an isolation forest,    *)
(* draws a scatter chart and offers the suspicious rows for download.      *)
(*                                                                         *)
(* Streamlit re-executes the whole script on every interaction and sends   *)
(* each element to the page at the moment its st.* call executes, so the   *)
(* position in the script (pc) and the elements rendered so far (screen)   *)
(* are state.  Only the elements produced inside the if/else of lines      *)
(* 19-90 are modelled; title, uploader and footer are static.              *)
(*                                                                         *)
(* All cell values are strings: "1", "9" (int64), "1.0", "9.0" (float64),  *)
(* "nan" (missing), "s" (text); the dtype of a column is kept beside it.   *)
(* Uploads whose column names collide after trimming are left out, and the *)
(* rows of an upload are drawn from a few kinds of row (RowKinds).         *)
(***************************************************************************)
EXTENDS Integers, Sequences, FiniteSets, TLC

\* ------------------------------------------------------------- bounds
\* Largest number of data rows of an uploaded file.
MaxRows == 2

\* ------------------------------------------------------------- uploads
\* Header rows of the uploaded files, as written in the file.
Headers ==
    { <<"a">>, <<" a", "b ", "name">>, <<"a", "Status">>, <<"anomaly_score", "b">> }

\* All sequences over S of length n.
SeqsOfLen(S, n) == [1..n -> S]

\* Cell texts of the uploaded files: two integers, an empty cell, a word.
Cells == {"1", "9", "", "s"}

\* The first two cells of a row: equal points, a distant point, a mixed
\* point, a row whose first cell is empty, a row whose second cell is text.
RowKinds == { <<"1", "1">>, <<"9", "9">>, <<"1", "9">>, <<"", "1">>, <<"1", "s">> }

\* The rows a file with header h can hold; a third column holds text.
RowsOf(h) ==
    CASE Len(h) = 1 -> SeqsOfLen(Cells, 1)
      [] Len(h) = 2 -> RowKinds
      [] OTHER -> { Append(r, "s") : r \in RowKinds }

\* An upload that pd.read_csv cannot parse (empty or undecodable bytes).
Malformed == [present |-> TRUE, ok |-> FALSE, header |-> <<>>, rows |-> <<>>]

\* The uploads the user can choose from.
Files ==
    {Malformed} \cup
    UNION { UNION { { [present |-> TRUE, ok |-> TRUE, header |-> h, rows |-> r] :
                        r \in SeqsOfLen(RowsOf(h), n) } :
                    n \in 0..MaxRows } :
            h \in Headers }

\* The uploaded_file of line 15 when nothing is uploaded.
NoUpload == [present |-> FALSE, ok |-> FALSE, header |-> <<>>, rows |-> <<>>]

\* ------------------------------------------------------------- pandas
\* str.strip on a column name.
Strip(name) ==
    CASE name = " a" -> "a"
      [] name = "b " -> "b"
      [] OTHER -> name

\* The dtype pd.read_csv infers for a column from its cell texts.
InferDtype(texts) ==
    IF Len(texts) = 0 THEN "object"
    ELSE IF \E i \in 1..Len(texts) : texts[i] = "s" THEN "object"
    ELSE IF \E i \in 1..Len(texts) : texts[i] = "" THEN "float64"
    ELSE "int64"

\* The value pd.read_csv stores for a cell text in a column of a dtype.
ParseCell(text, dtype) ==
    IF text = "" THEN "nan"
    ELSE IF dtype = "float64" THEN (IF text = "1" THEN "1.0" ELSE "9.0")
    ELSE text

\* The frame without columns or rows.
NoFrame == [columns |-> <<>>, dtypes |-> <<>>, data |-> <<>>]

\* pd.read_csv on a parseable upload: columns named as in the header.
\* A line that is entirely blank (one column, empty cell) is skipped.
ReadCsv(file) ==
    LET h == file.header
        rows == SelectSeq(file.rows, LAMBDA r : ~(Len(h) = 1 /\ r[1] = ""))
        col(j) == [i \in 1..Len(rows) |-> rows[i][j]]
    IN  [columns |-> h,
         dtypes  |-> [j \in 1..Len(h) |-> InferDtype(col(j))],
         data    |-> [i \in 1..Len(rows) |->
                        [j \in 1..Len(h) |->
                            ParseCell(rows[i][j], InferDtype(col(j)))]]]

\* df.columns = df.columns.str.strip()
StripColumns(frame) ==
    [frame EXCEPT !.columns = [j \in 1..Len(frame.columns) |-> Strip(frame.columns[j])]]

\* Position of a column name in a frame, 0 when absent.
ColIndex(frame, name) ==
    IF \E j \in 1..Len(frame.columns) : frame.columns[j] = name
    THEN CHOOSE j \in 1..Len(frame.columns) : frame.columns[j] = name
    ELSE 0

\* df[name] as a sequence of values.
Column(frame, name) ==
    [i \in 1..Len(frame.data) |-> frame.data[i][ColIndex(frame, name)]]

\* df[name] = values: replaces the column of that name, else appends one.
SetColumn(frame, name, dtype, values) ==
    LET j == ColIndex(frame, name)
    IN  IF j > 0
        THEN [frame EXCEPT !.dtypes[j] = dtype,
                           !.data = [i \in 1..Len(frame.data) |->
                                        [frame.data[i] EXCEPT ![j] = values[i]]]]
        ELSE [columns |-> Append(frame.columns, name),
              dtypes  |-> Append(frame.dtypes, dtype),
              data    |-> [i \in 1..Len(frame.data) |->
                              Append(frame.data[i], values[i])]]

\* df.select_dtypes(include=['float64', 'int64']).columns.tolist()
NumericCols(frame) ==
    LET idx == SelectSeq([j \in 1..Len(frame.columns) |-> j],
                         LAMBDA j : frame.dtypes[j] \in {"float64", "int64"})
    IN  [k \in 1..Len(idx) |-> frame.columns[idx[k]]]

\* ------------------------------------------------------------- scoring
\* Bounds and default of the contamination slider, in thousandths.
ContaminationMin == 10
ContaminationMax == 200
ContaminationDefault == 50

\* The slider positions the user can choose.
Contaminations == {ContaminationMin, ContaminationDefault, ContaminationMax}

\* A number for a feature value, so that the seed can perturb a score.
Code(v) ==
    CASE v \in {"1", "1.0"} -> 0
      [] v \in {"9", "9.0"} -> 1
      [] OTHER -> 2

\* Stand-in for IsolationForest.score_samples: a point that shares its
\* position with fewer rows is isolated sooner and scores lower; the seed
\* decides between points that are equally alone; equal points score equal.
ScoreSamples(X, seed) ==
    [i \in 1..Len(X) |->
        2 * Cardinality({j \in 1..Len(X) : X[j] = X[i]})
        + ((seed + Code(X[i][1]) + 2 * Code(X[i][2])) % 2)]

\* The k-th smallest (k = 0 for the smallest) of a non-empty sequence.
KthSmallest(s, k) ==
    CHOOSE v \in {s[i] : i \in 1..Len(s)} :
        /\ Cardinality({i \in 1..Len(s) : s[i] < v}) <= k
        /\ Cardinality({i \in 1..Len(s) : s[i] <= v}) > k

\* np.percentile(scores, 100 * contamination), times 1000, by linear
\* interpolation between the two neighbouring order statistics.
Offset1000(scores, contamination) ==
    LET p == contamination * (Len(scores) - 1)
        k == p \div 1000
        r == p % 1000
        lo == KthSmallest(scores, k)
    IN  IF r = 0 THEN 1000 * lo
        ELSE 1000 * lo + r * (KthSmallest(scores, k + 1) - lo)

\* IsolationForest(contamination, random_state).fit_predict(X): -1 for the
\* rows whose score lies below the offset, 1 for the others.
FitPredict(X, contamination, seed) ==
    LET scores == ScoreSamples(X, seed)
    IN  [i \in 1..Len(X) |->
            IF 1000 * scores[i] < Offset1000(scores, contamination)
            THEN "-1" ELSE "1"]

\* Whether a frame has a missing value in one of the given columns.
HasMissing(frame, names) ==
    \E i \in 1..Len(frame.data) : \E k \in 1..Len(names) :
        frame.data[i][ColIndex(frame, names[k])] = "nan"

\* df[features] as a sequence of (x, y) points.
FeatureMatrix(frame, fx, fy) ==
    [i \in 1..Len(frame.data) |->
        <<frame.data[i][ColIndex(frame, fx)], frame.data[i][ColIndex(frame, fy)]>>]

\* A mapping whose dictionary lacks the key -1.
MapStatusNoSuspicious(raw) ==
    CASE raw = "1" -> "Normal"
      [] OTHER -> "nan"

\* Series.map({1: 'Normal', -1: 'Suspicious'}): NaN for any other value.
MapStatus(raw) ==
    CASE raw = "1" -> "Normal"
      [] raw = "-1" -> "Suspicious"
      [] OTHER -> "nan"

\* ------------------------------------------------------------- results
\* df[df['Status'] == 'Suspicious']
Anomalies(frame) ==
    LET idx == SelectSeq([i \in 1..Len(frame.data) |-> i],
                         LAMBDA i : frame.data[i][ColIndex(frame, "Status")] = "Suspicious")
    IN  [frame EXCEPT !.data = [k \in 1..Len(idx) |-> frame.data[idx[k]]]]

\* The text to_csv writes for a value: a missing value is an empty field.
FormatCell(v) == IF v = "nan" THEN "" ELSE v

\* frame.to_csv() with the default index=True: the row index as first field.
ToCsvWithIndex(frame) ==
    <<<<"">> \o frame.columns>> \o
    [i \in 1..Len(frame.data) |->
        <<"#">> \o [j \in 1..Len(frame.columns) |-> FormatCell(frame.data[i][j])]]

\* frame.to_csv(index=False): a header line, then one line per row.
ToCsv(frame) ==
    <<frame.columns>> \o
    [i \in 1..Len(frame.data) |->
        [j \in 1..Len(frame.columns) |-> FormatCell(frame.data[i][j])]]

\* ------------------------------------------------------------- state
VARIABLES
    uploaded_file,  \* the file in the uploader, NoUpload when there is none
    widgets,        \* the sidebar widgets' values kept between runs
    pc,             \* position in the script; "idle" between runs
    outcome,        \* how the last run ended; "Running" during a run
    raised,         \* the stage at which this run raised, "none" otherwise
    df,             \* the data frame of the run
    numeric_cols,   \* line 29
    feature_x,      \* line 37
    feature_y,      \* line 38
    contamination,  \* line 40, in thousandths
    model,          \* line 43: the forest's parameters, and whether it was fitted
    chart,          \* the scatter chart passed to st.plotly_chart
    anomalies,      \* line 69
    count,          \* the number written at line 72
    table,          \* the frame shown by st.dataframe
    csv,            \* the data of the download button
    screen,         \* the elements rendered in this run, in order
    consumed,       \* whether the uploaded file's buffer has been read
    first_scored    \* parameters and labels of the first run of this upload,
                    \* if that run scored (closed without labels if it raised),
                    \* and whether a later run scored the same parameters again

vars == <<uploaded_file, widgets, pc, outcome, raised, df, numeric_cols,
          feature_x, feature_y, contamination, model, chart, anomalies,
          count, table, csv, screen, consumed, first_scored>>

\* A forest without a fixed random_state: the seed differs between runs.
RandomStateVarying == IF first_scored.closed THEN 43 ELSE 42

\* random_state of the IsolationForest.
RandomState == 42

\* A check that lets a single numeric column through.
MinNumericColsOffByOne == 2 - 1

\* The fewest numeric columns the analysis accepts.
MinNumericCols == 2

\* Sidebar widgets that were not rendered in the last run keep no value.
NoWidgets == [live |-> FALSE, opts |-> <<>>, x |-> "", y |-> "", c |-> ContaminationDefault]

NoModel == [contamination |-> 0, random_state |-> 0, fitted |-> FALSE]

NoChart == [x |-> "", y |-> "", xs |-> <<>>, ys |-> <<>>, color |-> <<>>]

NoFirst == [taken |-> FALSE, closed |-> FALSE, again |-> FALSE, x |-> "", y |-> "", c |-> 0, labels |-> <<>>]

\* The names a script run binds, before the run binds them.
Unbound ==
    /\ numeric_cols' = <<>>
    /\ feature_x' = ""
    /\ feature_y' = ""
    /\ contamination' = 0
    /\ model' = NoModel
    /\ chart' = NoChart
    /\ anomalies' = NoFrame
    /\ count' = 0
    /\ table' = NoFrame
    /\ csv' = <<>>

Init ==
    /\ uploaded_file = NoUpload
    /\ widgets = NoWidgets
    /\ pc = "idle"
    /\ outcome = "NoFile"
    /\ raised = "none"
    /\ df = NoFrame
    /\ numeric_cols = <<>>
    /\ feature_x = ""
    /\ feature_y = ""
    /\ contamination = 0
    /\ model = NoModel
    /\ chart = NoChart
    /\ anomalies = NoFrame
    /\ count = 0
    /\ table = NoFrame
    /\ csv = <<>>
    /\ screen = <<"info">>
    /\ consumed = FALSE
    /\ first_scored = NoFirst

\* ------------------------------------------------------------- the user
\* An uploader that hands every run the same buffer, left where it was.
BufferLeftAtEnd(was_consumed) == was_consumed

\* st.file_uploader hands every run a new buffer positioned at its start,
\* whatever an earlier run has read (line 15).
BufferAtRerun(was_consumed) == FALSE

\* Every interaction makes Streamlit run the script again from its top.
Rerun ==
    /\ pc' = "run"
    /\ outcome' = "Running"
    /\ raised' = "none"
    /\ screen' = <<>>
    /\ df' = NoFrame
    /\ Unbound

\* The files a user puts in place of the one in the uploader.
Replacements == {f \in Files : Len(f.rows) <= 1}

\* The user uploads a file into the empty uploader (line 15).
Upload ==
    /\ pc = "idle"
    /\ uploaded_file = NoUpload
    /\ \E f \in Files : uploaded_file' = f
    /\ first_scored' = NoFirst
    /\ consumed' = FALSE
    /\ UNCHANGED widgets
    /\ Rerun

\* The user uploads another file in place of the present one.
Replace ==
    /\ pc = "idle"
    /\ uploaded_file # NoUpload
    /\ \E f \in Replacements \ {uploaded_file} : uploaded_file' = f
    /\ first_scored' = NoFirst
    /\ consumed' = FALSE
    /\ UNCHANGED widgets
    /\ Rerun

\* The user removes the file from the uploader.
RemoveFile ==
    /\ pc = "idle"
    /\ uploaded_file # NoUpload
    /\ uploaded_file' = NoUpload
    /\ first_scored' = NoFirst
    /\ consumed' = FALSE
    /\ UNCHANGED widgets
    /\ Rerun

\* The user picks another column in the first select box (line 37).
SelectX(v) ==
    /\ pc = "idle"
    /\ widgets.live
    /\ \E k \in 1..Len(widgets.opts) : widgets.opts[k] = v
    /\ v # widgets.x
    /\ widgets' = [widgets EXCEPT !.x = v]
    /\ consumed' = BufferAtRerun(consumed)
    /\ UNCHANGED <<uploaded_file, first_scored>>
    /\ Rerun

\* The user picks another column in the second select box (line 38).
SelectY(v) ==
    /\ pc = "idle"
    /\ widgets.live
    /\ \E k \in 1..Len(widgets.opts) : widgets.opts[k] = v
    /\ v # widgets.y
    /\ widgets' = [widgets EXCEPT !.y = v]
    /\ consumed' = BufferAtRerun(consumed)
    /\ UNCHANGED <<uploaded_file, first_scored>>
    /\ Rerun

\* The user moves the contamination slider (line 40).
SetContamination(c) ==
    /\ pc = "idle"
    /\ widgets.live
    /\ c # widgets.c
    /\ widgets' = [widgets EXCEPT !.c = c]
    /\ consumed' = BufferAtRerun(consumed)
    /\ UNCHANGED <<uploaded_file, first_scored>>
    /\ Rerun

\* ------------------------------------------------------------- the script
\* An except clause that passes.
ExceptSwallowed == <<>>

\* What the except clause of lines 86-87 renders.
ExceptElements == <<"error">>

\* except Exception as e: st.error(...); the run then ends.
Except(stage) ==
    /\ screen' = screen \o ExceptElements
    /\ raised' = stage
    /\ outcome' = "Error"
    /\ pc' = "idle"

\* The frame lines 22-23 bind to df.
LoadFrame(file) == StripColumns(ReadCsv(file))

\* Lines 19, 89-90: no file, so only the upload prompt is rendered.
ShowUploadPrompt ==
    /\ pc = "run"
    /\ ~uploaded_file.present
    /\ screen' = Append(screen, "info")
    /\ outcome' = "NoFile"
    /\ pc' = "idle"
    /\ widgets' = NoWidgets
    /\ UNCHANGED <<uploaded_file, raised, df, numeric_cols, feature_x, feature_y,
                   contamination, model, chart, anomalies, count, table, csv,
                   consumed, first_scored>>

\* Line 22 raises on a file that is not delimited text.
ReadCsvRaises ==
    /\ pc = "run"
    /\ uploaded_file.present
    /\ ~uploaded_file.ok \/ consumed
    /\ Except("parse")
    /\ widgets' = NoWidgets
    /\ UNCHANGED <<uploaded_file, df, numeric_cols, feature_x, feature_y,
                   contamination, model, chart, anomalies, count, table, csv,
                   consumed, first_scored>>

\* Lines 22-29: parse, trim the column names, preview, numeric columns.
Load ==
    /\ pc = "run"
    /\ uploaded_file.present
    /\ uploaded_file.ok
    /\ ~consumed
    /\ consumed' = TRUE
    /\ df' = LoadFrame(uploaded_file)
    /\ screen' = Append(screen, "preview")
    /\ numeric_cols' = NumericCols(df')
    /\ pc' = "loaded"
    /\ UNCHANGED <<uploaded_file, widgets, outcome, raised, feature_x, feature_y,
                   contamination, model, chart, anomalies, count, table, csv,
                   first_scored>>

\* Lines 31-32: too few numeric columns; the run ends with the message.
ValidationFails ==
    /\ pc = "loaded"
    /\ Len(numeric_cols) < MinNumericCols
    /\ screen' = Append(screen, "validation_error")
    /\ outcome' = "ValidationFailed"
    /\ pc' = "idle"
    /\ widgets' = NoWidgets
    /\ UNCHANGED <<uploaded_file, raised, df, numeric_cols, feature_x, feature_y,
                   contamination, model, chart, anomalies, count, table, csv,
                   consumed, first_scored>>

\* index=min(1, len(numeric_cols)-1) of line 38, counted from 1.
DefaultY(cols) == cols[1 + (IF Len(cols) - 1 < 1 THEN Len(cols) - 1 ELSE 1)]

\* The values the sidebar widgets return: the kept ones when the select
\* boxes offer the same options as before, else their defaults.
WidgetValues(w, cols) ==
    IF w.live /\ w.opts = cols
    THEN [w EXCEPT !.live = TRUE]
    ELSE [live |-> TRUE, opts |-> cols, x |-> cols[1], y |-> DefaultY(cols),
          c |-> w.c]

\* Lines 34-43: the sidebar, the chosen parameters, the model.
SelectParameters ==
    /\ pc = "loaded"
    /\ Len(numeric_cols) >= MinNumericCols
    /\ widgets' = WidgetValues(widgets, numeric_cols)
    /\ screen' = Append(screen, "sidebar")
    /\ feature_x' = widgets'.x
    /\ feature_y' = widgets'.y
    /\ contamination' = widgets'.c
    /\ model' = [contamination |-> widgets'.c, random_state |-> RandomState,
                 fitted |-> FALSE]
    /\ pc' = "fit"
    /\ UNCHANGED <<uploaded_file, outcome, raised, df, numeric_cols, chart,
                   anomalies, count, table, csv, consumed, first_scored>>

\* A fit that also refuses a feature matrix whose two columns are the same.
ScoringRejectsSameColumn(frame, fx, fy) == fx = fy \/ HasMissing(frame, <<fx, fy>>)

\* Whether fit_predict may reject df[features]: its input validation raises
\* on a missing value; a forest built to accept NaN scores the rows instead.
ScoringMayRaise(frame, fx, fy) == HasMissing(frame, <<fx, fy>>)

\* Line 47 raises.
FitRaises ==
    /\ pc = "fit"
    /\ ScoringMayRaise(df, feature_x, feature_y)
    /\ Except("scoring")
    /\ first_scored' = [first_scored EXCEPT !.closed = TRUE]
    /\ UNCHANGED <<uploaded_file, widgets, df, numeric_cols, feature_x, feature_y,
                   contamination, model, chart, anomalies, count, table, csv,
                   consumed>>

\* Lines 46-50: fit and predict on the two columns, then map the labels.
Score ==
    /\ pc = "fit"
    /\ \E X \in {FeatureMatrix(df, feature_x, feature_y)} :
       \E labels \in {FitPredict(X, model.contamination, model.random_state)} :
       \E scored \in {SetColumn(df, "anomaly_score", "int64", labels)} :
       \E raw \in {Column(scored, "anomaly_score")} :
           /\ df' = SetColumn(scored, "Status", "object",
                              [i \in 1..Len(raw) |-> MapStatus(raw[i])])
           /\ first_scored' =
                IF first_scored.taken
                THEN [first_scored EXCEPT !.again =
                        @ \/ (first_scored.x = feature_x /\ first_scored.y = feature_y
                              /\ first_scored.c = contamination)]
                ELSE IF first_scored.closed THEN first_scored
                ELSE [taken |-> TRUE, closed |-> TRUE, again |-> FALSE, x |-> feature_x,
                      y |-> feature_y, c |-> contamination, labels |-> labels]
    /\ model' = [model EXCEPT !.fitted = TRUE]
    /\ pc' = "chart"
    /\ UNCHANGED <<uploaded_file, widgets, outcome, raised, numeric_cols,
                   feature_x, feature_y, contamination, chart, anomalies, count,
                   table, csv, screen, consumed>>

\* Lines 55-64 raise before the chart is rendered.
ChartRaises ==
    /\ pc = "chart"
    /\ Except("visualization")
    /\ UNCHANGED <<uploaded_file, widgets, df, numeric_cols, feature_x, feature_y,
                   contamination, model, chart, anomalies, count, table, csv,
                   consumed, first_scored>>

\* Lines 55-64: the scatter chart of the two features, coloured by Status.
Chart ==
    /\ pc = "chart"
    /\ chart' = [x |-> feature_x, y |-> feature_y,
                 xs |-> Column(df, feature_x), ys |-> Column(df, feature_y),
                 color |-> Column(df, "Status")]
    /\ screen' = Append(screen, "chart")
    /\ pc' = "results"
    /\ UNCHANGED <<uploaded_file, widgets, outcome, raised, df, numeric_cols,
                   feature_x, feature_y, contamination, model, anomalies, count,
                   table, csv, consumed, first_scored>>

\* A test that takes a single suspicious row for none.
NotEmptyOffByOne(frame) == Len(frame.data) > 1

\* if not anomalies.empty (line 71)
NotEmpty(frame) == Len(frame.data) > 0

\* len(anomalies) of line 72
ReportedCount(frame) == Len(frame.data)

\* Lines 67-82 with suspicious rows: the count, the table, the download.
ResultsWithAnomalies ==
    /\ pc = "results"
    /\ anomalies' = Anomalies(df)
    /\ NotEmpty(anomalies')
    /\ count' = ReportedCount(anomalies')
    /\ table' = anomalies'
    /\ csv' = ToCsv(anomalies')
    /\ screen' = screen \o <<"heading", "count", "table", "download">>
    /\ outcome' = "ScoredWithAnomalies"
    /\ pc' = "idle"
    /\ UNCHANGED <<uploaded_file, widgets, raised, df, numeric_cols, feature_x,
                   feature_y, contamination, model, chart, consumed, first_scored>>

\* Line 73 raises: the count is written, the table is not.
DataframeRaises ==
    /\ pc = "results"
    /\ anomalies' = Anomalies(df)
    /\ NotEmpty(anomalies')
    /\ count' = ReportedCount(anomalies')
    /\ screen' = screen \o <<"heading", "count">> \o ExceptElements
    /\ raised' = "results"
    /\ outcome' = "Error"
    /\ pc' = "idle"
    /\ UNCHANGED <<uploaded_file, widgets, df, numeric_cols, feature_x, feature_y,
                   contamination, model, chart, table, csv, consumed, first_scored>>

\* Lines 76-82 raise: count and table are rendered, the download is not.
ExportRaises ==
    /\ pc = "results"
    /\ anomalies' = Anomalies(df)
    /\ NotEmpty(anomalies')
    /\ count' = ReportedCount(anomalies')
    /\ table' = anomalies'
    /\ screen' = screen \o <<"heading", "count", "table">> \o ExceptElements
    /\ raised' = "results"
    /\ outcome' = "Error"
    /\ pc' = "idle"
    /\ UNCHANGED <<uploaded_file, widgets, df, numeric_cols, feature_x, feature_y,
                   contamination, model, chart, csv, consumed, first_scored>>

\* Lines 67-71, 83-84 without suspicious rows: the success message.
ResultsEmpty ==
    /\ pc = "results"
    /\ anomalies' = Anomalies(df)
    /\ ~NotEmpty(anomalies')
    /\ screen' = screen \o <<"heading", "success">>
    /\ outcome' = "ScoredEmpty"
    /\ pc' = "idle"
    /\ UNCHANGED <<uploaded_file, widgets, raised, df, numeric_cols, feature_x,
                   feature_y, contamination, model, chart, count, table, csv,
                   consumed, first_scored>>

Next ==
    \/ Upload
    \/ Replace
    \/ RemoveFile
    \/ \E v \in {"a", "b", "Status", "anomaly_score"} : SelectX(v)
    \/ \E v \in {"a", "b", "Status", "anomaly_score"} : SelectY(v)
    \/ \E c \in Contaminations : SetContamination(c)
    \/ ShowUploadPrompt
    \/ ReadCsvRaises
    \/ Load
    \/ ValidationFails
    \/ SelectParameters
    \/ FitRaises
    \/ Score
    \/ ChartRaises
    \/ Chart
    \/ ResultsWithAnomalies
    \/ DataframeRaises
    \/ ExportRaises
    \/ ResultsEmpty

Spec == Init /\ [][Next]_vars

\* ------------------------------------------------------------- properties
Shown(e) == \E k \in 1..Len(screen) : screen[k] = e

Times(e) == Cardinality({k \in 1..Len(screen) : screen[k] = e})

Scored == outcome \in {"ScoredWithAnomalies", "ScoredEmpty"}

\* The rows of df that carry the label Suspicious.
SuspiciousRows ==
    {i \in 1..Len(df.data) : df.data[i][ColIndex(df, "Status")] = "Suspicious"}

\* The uploaded file as parsed by a run of its own.
Parsed == StripColumns(ReadCsv(uploaded_file))

\* C1: once a run has scored, df has as many rows as the upload, exactly one
\* Status column, and every row's Status is Normal where the model returned
\* 1 and Suspicious where it returned -1; no row has another or no label.
C1_EveryRowLabelled ==
    model.fitted =>
        /\ Len(df.data) = Len(Parsed.data)
        /\ Cardinality({j \in 1..Len(df.columns) : df.columns[j] = "Status"}) = 1
        /\ \A i \in 1..Len(df.data) :
            LET raw == df.data[i][ColIndex(df, "anomaly_score")]
                status == df.data[i][ColIndex(df, "Status")]
            IN  /\ raw \in {"1", "-1"}
                /\ status \in {"Normal", "Suspicious"}
                /\ (raw = "1") <=> (status = "Normal")
                /\ (raw = "-1") <=> (status = "Suspicious")

C1_Witness ==
    /\ model.fitted
    /\ \E i, k \in 1..Len(df.data) :
        /\ df.data[i][ColIndex(df, "Status")] = "Suspicious"
        /\ df.data[k][ColIndex(df, "Status")] = "Normal"

\* C2: a parsed upload with fewer than two numeric columns ends its run in
\* ValidationFailed, and such a run shows the preview and the validation
\* message only: no sidebar, no model, no chart, table or download, nothing
\* raised; the session then waits for another upload.
C2_ValidationHalts ==
    /\ (pc = "idle" /\ uploaded_file.ok /\ Len(NumericCols(Parsed)) < 2)
            => outcome = "ValidationFailed"
    /\ outcome = "ValidationFailed" =>
        /\ uploaded_file.ok /\ Len(NumericCols(Parsed)) < 2
        /\ screen = <<"preview", "validation_error">>
        /\ model = NoModel
        /\ ~widgets.live
        /\ feature_x = "" /\ feature_y = ""
        /\ chart = NoChart /\ table = NoFrame /\ csv = <<>>
        /\ raised = "none"
        /\ pc = "idle"
        /\ ENABLED Replace

C2_Witness ==
    /\ outcome = "ValidationFailed"
    /\ Len(numeric_cols) = 1
    /\ Len(df.data) = MaxRows

\* C3: a run that raised shows neither the chart, nor the anomaly table, nor
\* the download.
C3_NoPartialResults ==
    raised # "none" => ~Shown("chart") /\ ~Shown("table") /\ ~Shown("download")

\* C4: a run that raised, at whatever stage, has ended with exactly one error
\* message and without the success message; an unparseable upload always
\* ends so; and the error message of the except clause appears in no run
\* that did not raise.
C4_ErrorsCaughtAndShown ==
    /\ raised # "none" =>
        /\ pc = "idle"
        /\ outcome = "Error"
        /\ Times("error") = 1
        /\ ~Shown("success")
        /\ ~Shown("validation_error")
    /\ (pc = "idle" /\ uploaded_file.present /\ ~uploaded_file.ok) => raised = "parse"
    /\ raised = "none" => ~Shown("error") /\ outcome # "Error"

C4_Witness == raised = "scoring" /\ Shown("sidebar") /\ screen[Len(screen)] = "error"

\* C5: in a scored run the anomalies are exactly df's rows whose Status is
\* Suspicious, in df's order and with df's columns; the table shown is that
\* frame; and the download holds one header line naming the table's columns
\* and, per table row, one line with the text of each of its values.
C5_ExportMatchesTable ==
    Scored =>
        /\ anomalies.columns = df.columns
        /\ anomalies.data =
              SelectSeq(df.data, LAMBDA r : r[ColIndex(df, "Status")] = "Suspicious")
        /\ Shown("download") =>
              /\ Shown("table")
              /\ table = anomalies
              /\ Len(csv) = Len(table.data) + 1
              /\ csv[1] = table.columns
              /\ \A i \in 1..Len(table.data) :
                    /\ Len(csv[i + 1]) = Len(table.columns)
                    /\ \A j \in 1..Len(table.columns) :
                          csv[i + 1][j] = FormatCell(table.data[i][j])

C5_Witness ==
    /\ Scored
    /\ Shown("download")
    /\ \E i \in 1..Len(table.data) : \E j \in 1..Len(table.columns) :
          table.data[i][j] = "nan"

\* C6: a run that scored and did not raise ends on exactly one of two paths:
\* without a Suspicious row, the success message and neither count, table nor
\* download; with one, the count, the table and the download, no success
\* message, and the count is the number of Suspicious rows.
C6_OneResultPath ==
    /\ (pc = "idle" /\ model.fitted /\ raised = "none") => Scored
    /\ outcome = "ScoredEmpty" =>
        /\ SuspiciousRows = {}
        /\ Times("success") = 1
        /\ ~Shown("count") /\ ~Shown("table") /\ ~Shown("download")
    /\ outcome = "ScoredWithAnomalies" =>
        /\ SuspiciousRows # {}
        /\ Times("count") = 1 /\ Times("table") = 1 /\ Times("download") = 1
        /\ ~Shown("success")
        /\ count = Cardinality(SuspiciousRows)
        /\ Len(table.data) = count

C6_Witness ==
    /\ outcome = "ScoredWithAnomalies"
    /\ count = 1
    /\ Len(df.data) > 1

\* C7: a run that scores the same upload with the same two features and the
\* same contamination as the first run of that upload gives every row the
\* label it had then, whatever runs came between.
C7_Determinism ==
    (/\ model.fitted
     /\ first_scored.taken
     /\ first_scored.x = feature_x
     /\ first_scored.y = feature_y
     /\ first_scored.c = contamination)
        => Column(df, "anomaly_score") = first_scored.labels

C7_Witness ==
    /\ model.fitted
    /\ first_scored.again
    /\ first_scored.x = feature_x
    /\ first_scored.y = feature_y
    /\ first_scored.c = contamination
    /\ \E i \in 1..Len(first_scored.labels) : first_scored.labels[i] = "-1"

\* The state of the session in the terms of the pipeline's state machine.
Phase ==
    CASE pc = "idle" -> outcome
      [] pc = "run" -> "Starting"
      [] pc \in {"loaded", "fit"} -> "Loaded"
      [] OTHER -> "Scored"

Outcomes == {"NoFile", "ValidationFailed", "Error", "ScoredWithAnomalies", "ScoredEmpty"}

\* The steps of the state machine: an interaction starts a run from every
\* outcome; the run shows the prompt without a file, and with one parses it
\* anew (Loaded holds the parsed upload and no derived field) or fails on an
\* unparseable one; Loaded leads to ValidationFailed, Scored or an error,
\* Scored to one of the two result states or an error.
C8_Step ==
    \/ Phase \in Outcomes /\ Phase' = "Starting"
    \/ /\ Phase = "Starting"
       /\ Phase' = (IF ~uploaded_file.present THEN "NoFile"
                    ELSE IF uploaded_file.ok THEN "Loaded" ELSE "Error")
       /\ Phase' = "Loaded" =>
            /\ df' = Parsed
            /\ model' = NoModel
            /\ feature_x' = "" /\ feature_y' = ""
            /\ anomalies' = NoFrame
    \/ Phase = "Loaded" /\ Phase' \in {"Loaded", "ValidationFailed", "Scored", "Error"}
    \/ Phase = "Scored" /\ Phase' \in {"Scored", "ScoredWithAnomalies", "ScoredEmpty", "Error"}

\* Without a file the session is in NoFile and shows the prompt alone; after
\* every outcome an upload can start a new run, and so can a parameter change
\* wherever the sidebar was rendered.
C8_Idle ==
    /\ (pc = "idle" /\ ~uploaded_file.present) <=> outcome = "NoFile"
    /\ outcome = "NoFile" => screen = <<"info">> /\ df = NoFrame /\ ~widgets.live
    /\ pc = "idle" => ENABLED (Upload \/ Replace)
    /\ (pc = "idle" /\ Shown("sidebar")) => ENABLED (\E c \in Contaminations : SetContamination(c))

\* C8: the session follows the state machine and is re-entrant.
C8_StateMachine == [](C8_Idle) /\ [][C8_Step]_vars

C8_Witness ==
    /\ pc = "loaded"
    /\ widgets.live
    /\ widgets.x = widgets.y

C10_UploadUnchanged ==
    model.fitted =>
        \A j \in 1..Len(Parsed.columns) : \A i \in 1..Len(Parsed.data) :
            df.data[i][ColIndex(df, Parsed.columns[j])] = Parsed.data[i][j]
====
